---------------------------- MODULE Spec2Model ----------------------------
(***************************************************************************)
(* Model of the content-moderation pipeline:                               *)
(*   ContentModerator  (src/src/services/contentModerator.ts)              *)
(*   GeminiService     (src/src/services/geminiService.ts)                 *)
(*                                                                         *)
(* Representation of JavaScript values                                     *)
(*   string   a sequence of runs [ch, n]: the character ch repeated n      *)
(*            times, adjacent runs carrying different characters.  This    *)
(*            is one-to-one with strings and lets 10,001-character         *)
(*            contents be written down.                                    *)
(*   number   [nan, v] with v in hundredths (0.9 is 90); NaN has nan=TRUE. *)
(***************************************************************************)
EXTENDS Integers, Sequences, FiniteSets, TLC

(***************************************************************************)
(* JavaScript numbers, in hundredths.                                      *)
(***************************************************************************)
Num(v) == [nan |-> FALSE, v |-> v]
NaN == [nan |-> TRUE, v |-> 0]

\* Math.max(a, b): NaN if either argument is NaN.
MathMax(a, b) ==
  IF a.nan \/ b.nan THEN NaN ELSE IF a.v >= b.v THEN a ELSE b

\* Math.min(a, b): NaN if either argument is NaN.
MathMin(a, b) ==
  IF a.nan \/ b.nan THEN NaN ELSE IF a.v <= b.v THEN a ELSE b

\* a < b: false whenever an operand is NaN.
NumLt(a, b) == ~a.nan /\ ~b.nan /\ a.v < b.v

(***************************************************************************)
(* Strings as run sequences.                                               *)
(***************************************************************************)
Run(c, n) == [ch |-> c, n |-> n]

\* The number of characters of the runs lo..hi of s (by halves, to keep the
\* recursion shallow).
RECURSIVE RangeLen(_, _, _)
RangeLen(s, lo, hi) ==
  IF lo > hi THEN 0
  ELSE IF lo = hi THEN s[lo].n
  ELSE RangeLen(s, lo, (lo + hi) \div 2) + RangeLen(s, (lo + hi) \div 2 + 1, hi)

\* String.prototype.length
StrLen(s) == RangeLen(s, 1, Len(s))

\* Characters matched by \s (and removed by String.prototype.trim); of these
\* the alphabet of the model has the blank, the line feed and the tab.
IsWhitespace(c) == c \in {" ", "\n", "\t"}

\* Line terminators: the characters the regular expression atom . does
\* not match.
IsLineTerminator(c) == c \in {"\n"}

\* The character class of contentModerator.ts line 101 (the three quote
\* characters are written by name).
IsSpecialChar(c) ==
  c \in {"!", "@", "#", "$", "%", "^", "&", "*", "(", ")", "_", "+", "=",
         "[", "]", "{", "}", "|", ";", "APOSTROPHE", ":", "QUOTE", ",", ".",
         "/", "<", ">", "?", "~", "BACKTICK"}

\* Variant: nothing is trimmed.
NoTrim(s) == s

\* String.prototype.trim: drop the leading and the trailing whitespace runs.
Trim(s) ==
  LET nonWs == {i \in 1..Len(s) : ~IsWhitespace(s[i].ch)}
  IN  IF nonWs = {} THEN <<>>
      ELSE LET lo == CHOOSE i \in nonWs : \A j \in nonWs : i <= j
               hi == CHOOSE i \in nonWs : \A j \in nonWs : i >= j
           IN  SubSeq(s, lo, hi)

\* Character mapping of String.prototype.toLowerCase on the alphabet of the model.
LowerChar(c) == IF c = "A" THEN "a" ELSE IF c = "B" THEN "b" ELSE c

\* The k-th smallest element of a set of numbers.
Nth(S, k) == CHOOSE i \in S : Cardinality({j \in S : j < i}) = k - 1

\* Merge adjacent runs of the same character (keeps the representation
\* one-to-one with strings).
Canon(s) ==
  LET starts == {i \in 1..Len(s) : i = 1 \/ s[i].ch # s[i - 1].ch}
      EndOf(i) == CHOOSE e \in i..Len(s) :
                    /\ \A k \in i..e : s[k].ch = s[i].ch
                    /\ (e = Len(s) \/ s[e + 1].ch # s[i].ch)
      Merged(i) == Run(s[i].ch, StrLen(SubSeq(s, i, EndOf(i))))
  IN  [k \in 1..Cardinality(starts) |-> Merged(Nth(starts, k))]

\* String.prototype.toLowerCase
ToLowerCase(s) == Canon([i \in 1..Len(s) |-> Run(LowerChar(s[i].ch), s[i].n)])

\* content.split(/\s+/): the tokens between maximal whitespace stretches; a
\* leading (trailing) stretch yields a leading (trailing) empty token.
Split(s) ==
  LET starts == {i \in 1..Len(s) :
                   /\ ~IsWhitespace(s[i].ch)
                   /\ (i = 1 \/ IsWhitespace(s[i - 1].ch))}
      EndOf(i) == CHOOSE e \in i..Len(s) :
                    /\ \A k \in i..e : ~IsWhitespace(s[k].ch)
                    /\ (e = Len(s) \/ IsWhitespace(s[e + 1].ch))
      toks == [k \in 1..Cardinality(starts) |->
                 SubSeq(s, Nth(starts, k), EndOf(Nth(starts, k)))]
      lead  == IF Len(s) = 0 \/ IsWhitespace(s[1].ch) THEN <<(<<>>)>> ELSE <<>>
      trail == IF Len(s) > 0 /\ IsWhitespace(s[Len(s)].ch) THEN <<(<<>>)>> ELSE <<>>
  IN  lead \o toks \o trail

(***************************************************************************)
(* ContentModerator.performBasicValidation                                 *)
(***************************************************************************)
\* trimmedContent.length > 10000
MaxContentLength == 10000
\* /(.)\1{9,}/: one character followed by at least 9 repetitions of it.
MinRepeats == 9
\* words.length > 10
MinWords == 10
\* word.length > 2
MinWordLength == 2
\* totalCharCount > 50
MinSpecialLength == 50

\* /(.)\1{9,}/.test(content): some character other than a line terminator
\* occurs at least 1 + MinRepeats times in a row.
HasRepeatedChars(content) ==
  \E i \in 1..Len(content) :
    ~IsLineTerminator(content[i].ch) /\ content[i].n >= 1 + MinRepeats

\* The lower-case words that name a property wordFrequency, a plain object,
\* inherits from Object.prototype.
ConstructorWord ==
  <<Run("c", 1), Run("o", 1), Run("n", 1), Run("s", 1), Run("t", 1), Run("r", 1),
    Run("u", 1), Run("c", 1), Run("t", 1), Run("o", 1), Run("r", 1)>>
ProtoWord ==
  <<Run("_", 2), Run("p", 1), Run("r", 1), Run("o", 1), Run("t", 1), Run("o", 1),
    Run("_", 2)>>

\* The positions of the tokens that get an own property in wordFrequency:
\* those longer than MinWordLength, but for __proto__, to which the
\* assignment of a string is ignored.
CountedWords(words) ==
  {k \in 1..Len(words) : StrLen(words[k]) > MinWordLength /\ words[k] # ProtoWord}

\* The numeric values of wordFrequency: for each counted token, the number
\* of tokens equal to it.
WordFrequencies(words) ==
  {Cardinality({j \in 1..Len(words) : words[j] = words[k]}) :
     k \in CountedWords(words)}

\* repetitionRatio > 0.3, with repetitionRatio = maxFrequency / words.length.
\* Math.max of no values is -Infinity, which is not above 0.3.  For the
\* token constructor, wordFrequency[word] || 0 is the inherited function, the
\* stored value is a string, Math.max is NaN and the comparison is false.
RepetitionRatioExceeded(words) ==
  LET freq == WordFrequencies(words)
  IN  /\ freq # {}
      /\ \A k \in CountedWords(words) : words[k] # ConstructorWord
      /\ LET maxFrequency == CHOOSE m \in freq : \A f \in freq : f <= m
         IN  10 * maxFrequency > 3 * Len(words)

\* (content.match(/[...]/g) || []).length
SpecialCharCount(content) ==
  StrLen(SelectSeq(content, LAMBDA r : IsSpecialChar(r.ch)))

\* specialCharRatio > 0.2, with specialCharRatio = specialCharCount / totalCharCount.
SpecialCharRatioExceeded(content) ==
  5 * SpecialCharCount(content) > StrLen(content)

Response(p, conf, cats, reason, sev, recs) ==
  [isProblematic |-> p, confidence |-> conf, categories |-> cats,
   reasoning |-> reason, severity |-> sev, recommendations |-> recs]

\* The object literals performBasicValidation returns.
EmptyContentVerdict ==
  Response(TRUE, Num(100), <<"empty_content">>, "Content is empty", "low",
           <<"Please provide meaningful content">>)
ExcessiveLengthVerdict ==
  Response(TRUE, Num(80), <<"excessive_length">>,
           "Content exceeds maximum length limit", "medium",
           <<"Please shorten your content to under 10,000 characters">>)
RepeatedCharsVerdict ==
  Response(TRUE, Num(90), <<"spam">>,
           "Content matches spam patterns - repeated characters", "high",
           <<"Please avoid spam-like content patterns">>)
RepetitionVerdict ==
  Response(TRUE, Num(80), <<"spam">>,
           "Content shows excessive repetition patterns", "medium",
           <<"Please vary your content and avoid excessive repetition">>)
SpecialCharsVerdict ==
  Response(TRUE, Num(70), <<"spam">>,
           "Content contains excessive special characters", "medium",
           <<"Please reduce the use of special characters">>)
PassedVerdict ==
  Response(FALSE, Num(10), <<>>, "Basic validation passed", "low", <<>>)

\* Variant: the length limit is inclusive (trimmedContent.length >= 10000).
ExceedsMaxLengthInclusive(trimmedContent) ==
  StrLen(trimmedContent) >= MaxContentLength

\* trimmedContent.length > 10000
ExceedsMaxLength(trimmedContent) == StrLen(trimmedContent) > MaxContentLength

\* words.length > 10, and repetitionRatio > 0.3 && words.length > 10
ExcessiveRepetition(words) ==
  Len(words) > MinWords /\ RepetitionRatioExceeded(words)

\* Variant: a content of exactly 50 characters is long enough.
ExcessiveSpecialCharsInclusive(content) ==
  SpecialCharRatioExceeded(content) /\ StrLen(content) >= MinSpecialLength

\* specialCharRatio > 0.2 && totalCharCount > 50
ExcessiveSpecialChars(content) ==
  SpecialCharRatioExceeded(content) /\ StrLen(content) > MinSpecialLength

\* Variant: the repeated-character check comes before the length check.
performBasicValidationRepeatsFirst(content) ==
  LET trimmedContent == Trim(content)
      words == Split(ToLowerCase(content))
  IN  IF StrLen(trimmedContent) = 0 THEN EmptyContentVerdict
      ELSE IF HasRepeatedChars(content) THEN RepeatedCharsVerdict
      ELSE IF ExceedsMaxLength(trimmedContent) THEN ExcessiveLengthVerdict
      ELSE IF ExcessiveRepetition(words) THEN RepetitionVerdict
      ELSE IF ExcessiveSpecialChars(content) THEN SpecialCharsVerdict
      ELSE PassedVerdict

performBasicValidation(content) ==
  LET trimmedContent == Trim(content)
      words == Split(ToLowerCase(content))
  IN  IF StrLen(trimmedContent) = 0 THEN EmptyContentVerdict
      ELSE IF ExceedsMaxLength(trimmedContent) THEN ExcessiveLengthVerdict
      ELSE IF HasRepeatedChars(content) THEN RepeatedCharsVerdict
      ELSE IF ExcessiveRepetition(words) THEN RepetitionVerdict
      ELSE IF ExcessiveSpecialChars(content) THEN SpecialCharsVerdict
      ELSE PassedVerdict

(***************************************************************************)
(* Values produced by JSON.parse.  A property value is a record            *)
(*   [t, b, n, s, a]: its type t and, by type, the boolean b, the number   *)
(*   n, the string s or the array of strings a.                            *)
(* isProblematic is drawn from undefined, null and the booleans; reasoning *)
(* and severity from undefined, null and strings.                          *)
(***************************************************************************)
JsVal(t, b, n, s, a) == [t |-> t, b |-> b, n |-> n, s |-> s, a |-> a]
Undefined == JsVal("undefined", FALSE, Num(0), "", <<>>)
Null      == JsVal("null", FALSE, Num(0), "", <<>>)
Bool(b)   == JsVal("boolean", b, Num(0), "", <<>>)
Number(v) == JsVal("number", FALSE, Num(v), "", <<>>)
String(s) == JsVal("string", FALSE, Num(0), s, <<>>)
Array(a)  == JsVal("array", FALSE, Num(0), "", a)

\* Truthiness, as used by the || operator.
Truthy(x) ==
  CASE x.t = "boolean" -> x.b
    [] x.t = "number"  -> ~x.n.nan /\ x.n.v # 0
    [] x.t = "string"  -> x.s # ""
    [] x.t = "array"   -> TRUE
    [] OTHER           -> FALSE

\* ToNumber on a string: its numeric value, NaN when it is not a numeral.
StringToNumber(s) ==
  IF s = "" THEN Num(0) ELSE IF s = "0.7" THEN Num(70) ELSE NaN

\* ToNumber, applied by Math.min and Math.max to their arguments.
ToNumber(x) ==
  CASE x.t = "undefined" -> NaN
    [] x.t = "null"      -> Num(0)
    [] x.t = "boolean"   -> IF x.b THEN Num(100) ELSE Num(0)
    [] x.t = "number"    -> x.n
    [] x.t = "string"    -> StringToNumber(x.s)
    [] x.t = "array"     -> IF x.a = <<>> THEN Num(0) ELSE NaN

\* A parsed document: an object with the five properties, the value null, or
\* another non-object value (on which every property reads as undefined).
Doc(kind, p, conf, cats, reason, sev) ==
  [kind |-> kind, isProblematic |-> p, confidence |-> conf,
   categories |-> cats, reasoning |-> reason, severity |-> sev]
Object(p, conf, cats, reason, sev) == Doc("object", p, conf, cats, reason, sev)
NullDoc == Doc("null", Undefined, Undefined, Undefined, Undefined, Undefined)
PrimitiveDoc ==
  Doc("primitive", Undefined, Undefined, Undefined, Undefined, Undefined)

(***************************************************************************)
(* The text of a response: a sequence of chunks, each a code-fence marker  *)
(* (three backticks, with or without json after them), a stretch of       *)
(* whitespace, the text of one JSON document, or other prose.              *)
(***************************************************************************)
Chunk(k, doc) == [k |-> k, doc |-> doc]
FenceJson == Chunk("fence_json", NullDoc)
Fence     == Chunk("fence", NullDoc)
Ws        == Chunk("ws", NullDoc)
Prose     == Chunk("prose", NullDoc)
Json(doc) == Chunk("json", doc)

\* Variant: only the marker followed by json is dropped.
StripFencesJsonOnly(text) == SelectSeq(text, LAMBDA ch : ch.k # "fence_json")

\* textStr.replace of geminiService.ts line 112: drop every fence marker.
RECURSIVE StripFences(_)
StripFences(text) ==
  IF text = <<>> THEN <<>>
  ELSE IF Head(text).k \in {"fence_json", "fence"} THEN StripFences(Tail(text))
  ELSE <<Head(text)>> \o StripFences(Tail(text))

\* String.prototype.trim on a text.
TrimText(text) ==
  LET nonWs == {i \in 1..Len(text) : text[i].k # "ws"}
  IN  IF nonWs = {} THEN <<>>
      ELSE LET lo == CHOOSE i \in nonWs : \A j \in nonWs : i <= j
               hi == CHOOSE i \in nonWs : \A j \in nonWs : i >= j
           IN  SubSeq(text, lo, hi)

\* JSON.parse: the document when the text is exactly one JSON document, a
\* SyntaxError otherwise.
JsonParse(text) ==
  IF Len(text) = 1 /\ text[1].k = "json"
  THEN [threw |-> FALSE, value |-> text[1].doc]
  ELSE [threw |-> TRUE, value |-> NullDoc]

(***************************************************************************)
(* GeminiService                                                           *)
(***************************************************************************)
Classification(p, conf, cats, reason, sev) ==
  [isProblematic |-> p, confidence |-> conf, categories |-> cats,
   reasoning |-> reason, severity |-> sev]

\* Variant: the fallback fails closed (isProblematic true).
ParseFallbackProblematic ==
  Classification(TRUE, Num(0), <<>>, "Failed to parse AI response", "low")

\* The fallback of the catch block of parseGeminiResponse.
ParseFallback ==
  Classification(FALSE, Num(0), <<>>, "Failed to parse AI response", "low")

parseGeminiResponse(text) ==
  LET cleanedText == TrimText(StripFences(text))
      res == JsonParse(cleanedText)
      parsed == res.value
  IN  IF res.threw \/ parsed.kind = "null"
      THEN ParseFallback
      ELSE Classification(
             IF Truthy(parsed.isProblematic) THEN parsed.isProblematic.b ELSE FALSE,
             MathMax(Num(0), MathMin(Num(100),
               ToNumber(IF Truthy(parsed.confidence)
                        THEN parsed.confidence ELSE Number(0)))),
             IF parsed.categories.t = "array" THEN parsed.categories.a ELSE <<>>,
             IF Truthy(parsed.reasoning)
               THEN parsed.reasoning.s ELSE "No reasoning provided",
             IF Truthy(parsed.severity) THEN parsed.severity.s ELSE "low")

\* What a failed call throws: any value; an object may carry a status (a
\* number, as HTTP statuses are).
Error(isObject, hasStatus, status) ==
  [isObject |-> isObject, hasStatus |-> hasStatus, status |-> status]

ApiFallback(category, reason) ==
  Classification(FALSE, Num(50), <<category>>, reason, "low")

\* Variant: only status 403 counts as an authentication failure.
HandleApiErrorWithout401(error) ==
  IF error.isObject /\ error.hasStatus /\ error.status = 429
  THEN ApiFallback("api_rate_limit",
                   "API rate limit exceeded. Content could not be analyzed.")
  ELSE IF error.isObject /\ error.hasStatus /\ error.status = 403
  THEN ApiFallback("api_auth_error",
                   "API authentication failed. Content could not be analyzed.")
  ELSE IF error.isObject /\ error.hasStatus /\ error.status >= 500
  THEN ApiFallback("api_server_error",
                   "API server error. Content could not be analyzed.")
  ELSE ApiFallback("api_error",
                   "API error occurred. Content could not be analyzed.")

\* The catch block of GeminiService.moderateContent.
HandleApiError(error) ==
  IF error.isObject /\ error.hasStatus /\ error.status = 429
  THEN ApiFallback("api_rate_limit",
                   "API rate limit exceeded. Content could not be analyzed.")
  ELSE IF error.isObject /\ error.hasStatus /\ error.status \in {403, 401}
  THEN ApiFallback("api_auth_error",
                   "API authentication failed. Content could not be analyzed.")
  ELSE IF error.isObject /\ error.hasStatus /\ error.status >= 500
  THEN ApiFallback("api_server_error",
                   "API server error. Content could not be analyzed.")
  ELSE ApiFallback("api_error",
                   "API error occurred. Content could not be analyzed.")

(***************************************************************************)
(* ContentModerationRequest                                                *)
(***************************************************************************)
\* An optional property of the request that is absent.
Absent == "<undefined>"

Request(content, userId, platform) ==
  [content |-> content, userId |-> userId, platform |-> platform]

(***************************************************************************)
(* GeminiService.moderateContent: the prompt                               *)
(***************************************************************************)
\* The parts of a prompt: the text of the template before the content, a
\* text interpolated into it, and the text of the template behind it.
PromptPart(part, runs) == [part |-> part, runs |-> runs]
NoPrompt == <<>>

\* The template with content interpolated; trim removes the line break and
\* the blanks around the template, the content stands between quotes inside.
buildModerationPrompt(content) ==
  << PromptPart("instructions", <<>>), PromptPart("content", content),
     PromptPart("response_format", <<>>) >>

\* Variant: the platform of the request is named in the prompt.
promptWithPlatform(request) ==
  buildModerationPrompt(request.content.runs)
  \o (IF request.platform = Absent THEN <<>>
      ELSE <<PromptPart("platform", <<Run(request.platform, 1)>>)>>)

\* const prompt = this.buildModerationPrompt(request.content)
prompt(request) == buildModerationPrompt(request.content.runs)

(***************************************************************************)
(* ContentModerator.applyBusinessRules                                     *)
(***************************************************************************)
\* Array.prototype.includes
Includes(seq, x) == \E i \in 1..Len(seq) : seq[i] = x

apiErrorCategories ==
  <<"api_rate_limit", "api_auth_error", "api_server_error", "api_error">>

UnavailableRecommendation ==
  "Content moderation temporarily unavailable. Please try again later."

\* Variant: one entry per mapped category, in the order of the categories.
getRecommendationsInCategoryOrder(categories) ==
  LET mapped == SelectSeq(categories,
                  LAMBDA c : c \in {"hate_speech", "harassment", "violence",
                                     "misinformation", "spam"})
  IN  [k \in 1..Len(mapped) |->
         CASE mapped[k] = "hate_speech"    -> "Consider using more inclusive language"
           [] mapped[k] = "harassment"     -> "Please be respectful in your communication"
           [] mapped[k] = "violence"       -> "Avoid content that promotes violence"
           [] mapped[k] = "misinformation" -> "Please verify facts before sharing"
           [] mapped[k] = "spam"           -> "Avoid repetitive or promotional content"]

getRecommendationsForCategories(categories) ==
  (IF Includes(categories, "hate_speech")
     THEN <<"Consider using more inclusive language">> ELSE <<>>)
  \o (IF Includes(categories, "harassment")
        THEN <<"Please be respectful in your communication">> ELSE <<>>)
  \o (IF Includes(categories, "violence")
        THEN <<"Avoid content that promotes violence">> ELSE <<>>)
  \o (IF Includes(categories, "misinformation")
        THEN <<"Please verify facts before sharing">> ELSE <<>>)
  \o (IF Includes(categories, "spam")
        THEN <<"Avoid repetitive or promotional content">> ELSE <<>>)

\* Variant: the recommendation is added, isProblematic is left as it was.
ApiErrorResponseKeepsFlag(r0) ==
  [r0 EXCEPT !.recommendations = Append(@, UnavailableRecommendation)]

\* The branch taken when a category is an API-error category (lines 143-148).
ApiErrorResponse(r0) ==
  [r0 EXCEPT !.isProblematic = FALSE,
             !.recommendations = Append(@, UnavailableRecommendation)]

\* Variant: the confidence is set to 0.9, not raised to it.
CriticalSeverityRuleAssigns(r) ==
  IF r.severity = "critical"
  THEN [r EXCEPT !.isProblematic = TRUE,
                 !.confidence = Num(90),
                 !.recommendations = Append(@, "Immediate content removal required")]
  ELSE r

\* if (finalResponse.severity === 'critical') { ... }  (lines 151-155)
CriticalSeverityRule(r) ==
  IF r.severity = "critical"
  THEN [r EXCEPT !.isProblematic = TRUE,
                 !.confidence = MathMax(@, Num(90)),
                 !.recommendations = Append(@, "Immediate content removal required")]
  ELSE r

\* Variant: isProblematic is left as the classifier reported it.
HighSeverityRuleKeepsFlag(r) ==
  IF r.severity = "high"
  THEN [r EXCEPT !.confidence = MathMax(@, Num(80)),
                 !.recommendations =
                    Append(@, "Content should be reviewed by human moderators")]
  ELSE r

\* if (finalResponse.severity === 'high') { ... }  (lines 157-161)
HighSeverityRule(r) ==
  IF r.severity = "high"
  THEN [r EXCEPT !.isProblematic = TRUE,
                 !.confidence = MathMax(@, Num(80)),
                 !.recommendations =
                    Append(@, "Content should be reviewed by human moderators")]
  ELSE r

\* Variant: a critical severity is not lowered to high.
PlatformRuleKeepsCritical(r, request) ==
  IF request.platform = "youtube" /\ Includes(r.categories, "explicit_content")
  THEN [r EXCEPT !.severity = IF @ = "critical" THEN @ ELSE "high",
                 !.recommendations = Append(@, "Consider age-restricting this content")]
  ELSE r

\* The platform-specific rule (lines 164-167).
PlatformRule(r, request) ==
  IF request.platform = "youtube" /\ Includes(r.categories, "explicit_content")
  THEN [r EXCEPT !.severity = "high",
                 !.recommendations = Append(@, "Consider age-restricting this content")]
  ELSE r

\* Variant: a low confidence suppresses the flag whatever the severity.
ConfidenceThresholdRuleAnySeverity(r) ==
  IF NumLt(r.confidence, Num(50)) THEN [r EXCEPT !.isProblematic = FALSE] ELSE r

\* The confidence threshold adjustment (lines 170-172).
ConfidenceThresholdRule(r) ==
  IF NumLt(r.confidence, Num(50)) /\ r.severity = "low"
  THEN [r EXCEPT !.isProblematic = FALSE]
  ELSE r

applyBusinessRules(geminiResponse, request) ==
  LET r0 == Response(geminiResponse.isProblematic, geminiResponse.confidence,
                     geminiResponse.categories, geminiResponse.reasoning,
                     geminiResponse.severity, <<>>)
      hasApiError ==
        \E i \in 1..Len(r0.categories) : Includes(apiErrorCategories, r0.categories[i])
      r1 == CriticalSeverityRule(r0)
      r2 == HighSeverityRule(r1)
      r3 == PlatformRule(r2, request)
      r4 == ConfidenceThresholdRule(r3)
  IN  IF hasApiError
      THEN ApiErrorResponse(r0)
      ELSE [r4 EXCEPT !.recommendations =
                         @ \o getRecommendationsForCategories(r4.categories)]

(***************************************************************************)
(* ContentModerator.initializeCategories                                   *)
(***************************************************************************)
Category(name, description, severity) ==
  [name |-> name, description |-> description, severity |-> severity]

initializeCategories ==
  << Category("hate_speech",
       "Content that attacks or demeans groups based on protected characteristics",
       "high"),
     Category("harassment", "Content intended to harass, bully, or intimidate", "high"),
     Category("violence", "Content promoting or glorifying violence", "critical"),
     Category("explicit_content", "Sexual or adult content", "medium"),
     Category("misinformation", "False or misleading information", "medium"),
     Category("spam", "Repetitive or promotional content", "low"),
     Category("self_harm", "Content promoting self-harm or suicide", "critical"),
     Category("illegal_activities", "Content promoting illegal activities", "critical"),
     Category("terrorism", "Content promoting terrorism or extremism", "critical") >>

(***************************************************************************)
(* State.                                                                  *)
(*   adapter     the geminiService object the ContentModerator was built   *)
(*               with: a GeminiService ("gemini") or a test double         *)
(*               ("stub") whose moderateContent settles with any value.    *)
(*   categories  ContentModerator.categories.                              *)
(*   calls       the moderateContent calls, by call id: where the call     *)
(*               stands (pc), its request, the classification the adapter  *)
(*               returned (the local geminiResponse), the verdict it       *)
(*               returned, the operations it has invoked so far, and what  *)
(*               the awaited adapter call settled with (outcome), and the  *)
(*               prompt its adapter call sent to the model.                *)
(*   batch       the moderateBatch request of the ModerationController     *)
(*               that holds this ContentModerator: where it stands (pc),   *)
(*               req.body.contents, the values the callbacks of            *)
(*               requests.map have returned so far, in the order they      *)
(*               returned, and the response (status, error, data).         *)
(***************************************************************************)
VARIABLES adapter, categories, calls, batch

vars == <<adapter, categories, calls, batch>>

\* The number of call slots.
MaxCalls == 2
CallIds == 1..MaxCalls

\* requests.length > 10
MaxBatchSize == 10

\* The calls a client (CallIds) or one batch can have in flight.
CallSlots == CallIds \cup (1..MaxBatchSize)

\* request.content: a string, or a value that is no string.
Str(runs) == [isString |-> TRUE, runs |-> runs]
NotAString == [isString |-> FALSE, runs |-> <<>>]

NoRequest == Request(NotAString, Absent, Absent)
NoClassification == Classification(FALSE, Num(0), <<>>, "", "")
NoVerdict == Response(FALSE, Num(0), <<>>, "", "", <<>>)

\* What the awaited call settled with: the text of the response
\* ("text"), the value thrown ("error"), the value a test double resolved
\* with ("stub"), its rejection ("stub_error"), or nothing yet ("none").
Outcome(kind, text, error) == [kind |-> kind, text |-> text, error |-> error]
NoError == Error(FALSE, FALSE, 0)
NoOutcome == Outcome("none", <<>>, NoError)

Call(pc, request, classification, verdict, events, outcome) ==
  [pc |-> pc, request |-> request, classification |-> classification,
   verdict |-> verdict, events |-> events, outcome |-> outcome,
   prompt |-> NoPrompt]

\* req.body.contents: an array of requests, or a value that is no array.
Body(isArray, items) == [isArray |-> isArray, items |-> items]
NotAnArray == Body(FALSE, <<>>)

Batch(pc, body, results, status, error, data) ==
  [pc |-> pc, body |-> body, results |-> results, status |-> status,
   error |-> error, data |-> data]
NoBatch == Batch("idle", NotAnArray, <<>>, 0, "", <<>>)

IdleCall == Call("idle", NoRequest, NoClassification, NoVerdict, <<>>, NoOutcome)

\* new ContentModerator(geminiService)
Construct(service) ==
  /\ adapter = service
  /\ categories = initializeCategories
  /\ calls = [i \in CallSlots |-> IdleCall]
  /\ batch = NoBatch

(***************************************************************************)
(* ContentModerator.moderateContent, up to its suspension at                *)
(* await this.geminiService.moderateContent(request).                      *)
(*   content that is no string: content.trim() throws a TypeError;         *)
(*   content flagged by performBasicValidation: that verdict is returned;  *)
(*   otherwise the adapter is invoked: GeminiService.moderateContent       *)
(*   builds the prompt and awaits this.model.generateContent(prompt).      *)
(***************************************************************************)
\* Variant: the heuristic verdict is passed through applyBusinessRules
\* before it is returned.
StartModerationNormalized(request) ==
  LET basicValidation == performBasicValidation(request.content.runs)
  IN  IF ~request.content.isString
      THEN Call("threw", request, NoClassification, NoVerdict,
                <<"performBasicValidation">>, NoOutcome)
      ELSE IF basicValidation.isProblematic
      THEN Call("done", request, NoClassification,
                applyBusinessRules(basicValidation, request),
                <<"performBasicValidation">>, NoOutcome)
      ELSE [Call("awaiting", request, NoClassification, NoVerdict,
                 <<"performBasicValidation", "geminiService.moderateContent">>
                 \o (IF adapter = "gemini" THEN <<"generateContent">> ELSE <<>>),
                 NoOutcome)
              EXCEPT !.prompt = IF adapter = "gemini" THEN prompt(request)
                                ELSE NoPrompt]

\* Variant: a verdict another call holds for the same content is reused.
StartModerationCached(request) ==
  LET basicValidation == performBasicValidation(request.content.runs)
      held == {j \in DOMAIN calls :
                 calls[j].pc = "done" /\ calls[j].request.content = request.content}
  IN  IF ~request.content.isString
      THEN Call("threw", request, NoClassification, NoVerdict,
                <<"performBasicValidation">>, NoOutcome)
      ELSE IF held # {}
      THEN Call("done", request, NoClassification,
                calls[CHOOSE j \in held : TRUE].verdict,
                <<"performBasicValidation">>, NoOutcome)
      ELSE IF basicValidation.isProblematic
      THEN Call("done", request, NoClassification, basicValidation,
                <<"performBasicValidation">>, NoOutcome)
      ELSE [Call("awaiting", request, NoClassification, NoVerdict,
                 <<"performBasicValidation", "geminiService.moderateContent">>
                 \o (IF adapter = "gemini" THEN <<"generateContent">> ELSE <<>>),
                 NoOutcome)
              EXCEPT !.prompt = IF adapter = "gemini" THEN prompt(request)
                                ELSE NoPrompt]

StartModeration(request) ==
  LET basicValidation == performBasicValidation(request.content.runs)
  IN  IF ~request.content.isString
      THEN Call("threw", request, NoClassification, NoVerdict,
                <<"performBasicValidation">>, NoOutcome)
      ELSE IF basicValidation.isProblematic
      THEN Call("done", request, NoClassification, basicValidation,
                <<"performBasicValidation">>, NoOutcome)
      ELSE [Call("awaiting", request, NoClassification, NoVerdict,
                 <<"performBasicValidation", "geminiService.moderateContent">>
                 \o (IF adapter = "gemini" THEN <<"generateContent">> ELSE <<>>),
                 NoOutcome)
              EXCEPT !.prompt = IF adapter = "gemini" THEN prompt(request)
                                ELSE NoPrompt]

moderateContent(i, requests) ==
  /\ calls[i].pc = "idle"
  /\ \E request \in requests :
       calls' = [calls EXCEPT ![i] = StartModeration(request)]
  /\ UNCHANGED <<adapter, categories, batch>>

\* Variant: recommendations is one array of the ContentModerator, which
\* every call appends to and hands out.
FinishSharedRecommendations(call, geminiResponse, adapterEvents, outcome) ==
  LET held == {j \in DOMAIN calls : Includes(calls[j].events, "applyBusinessRules")}
      finalResponse == applyBusinessRules(geminiResponse, call.request)
  IN  [Call("done", call.request, geminiResponse,
            IF held = {} THEN finalResponse
            ELSE [finalResponse EXCEPT !.recommendations =
                    calls[CHOOSE j \in held : TRUE].verdict.recommendations \o @],
            call.events \o adapterEvents \o <<"applyBusinessRules">>, outcome)
       EXCEPT !.prompt = call.prompt]

\* The rest of ContentModerator.moderateContent once the adapter has
\* returned geminiResponse: applyBusinessRules, and return.
Finish(call, geminiResponse, adapterEvents, outcome) ==
  [Call("done", call.request, geminiResponse,
        applyBusinessRules(geminiResponse, call.request),
        call.events \o adapterEvents \o <<"applyBusinessRules">>, outcome)
   EXCEPT !.prompt = call.prompt]

\* generateContent resolves and response.text() returns one of texts.
GenerateContentResolves(i, texts) ==
  /\ adapter = "gemini"
  /\ calls[i].pc = "awaiting"
  /\ \E text \in texts :
       calls' = [calls EXCEPT ![i] =
                   Finish(@, parseGeminiResponse(text), <<"parseGeminiResponse">>,
                          Outcome("text", text, NoError))]
  /\ UNCHANGED <<adapter, categories, batch>>

\* Variant: a rejection with a status of 500 or more is retried once.
GenerateContentRejectsRetry(i, errors) ==
  /\ adapter = "gemini"
  /\ calls[i].pc = "awaiting"
  /\ \E error \in errors :
       calls' = [calls EXCEPT ![i] =
                   IF /\ error.hasStatus /\ error.status >= 500
                      /\ Len(SelectSeq(@.events, LAMBDA e : e = "generateContent")) < 2
                   THEN [@ EXCEPT !.events = Append(@, "generateContent")]
                   ELSE Finish(@, HandleApiError(error), <<>>,
                               Outcome("error", <<>>, error))]
  /\ UNCHANGED <<adapter, categories, batch>>

\* Variant: an error without a status is thrown on to the caller.
GenerateContentRejectsRethrow(i, errors) ==
  /\ adapter = "gemini"
  /\ calls[i].pc = "awaiting"
  /\ \E error \in errors :
       calls' = [calls EXCEPT ![i] =
                   IF error.isObject /\ error.hasStatus
                   THEN Finish(@, HandleApiError(error), <<>>,
                               Outcome("error", <<>>, error))
                   ELSE [@ EXCEPT !.pc = "threw",
                                  !.outcome = Outcome("error", <<>>, error)]]
  /\ UNCHANGED <<adapter, categories, batch>>

\* Variant: after a rejection the call waits for a retry nothing schedules.
GenerateContentRejectsWaits(i, errors) ==
  /\ adapter = "gemini"
  /\ calls[i].pc = "awaiting"
  /\ \E error \in errors :
       calls' = [calls EXCEPT ![i].pc = "waiting",
                              ![i].outcome = Outcome("error", <<>>, error)]
  /\ UNCHANGED <<adapter, categories, batch>>

\* generateContent rejects, or reading the response throws, one of errors.
GenerateContentRejects(i, errors) ==
  /\ adapter = "gemini"
  /\ calls[i].pc = "awaiting"
  /\ \E error \in errors :
       calls' = [calls EXCEPT ![i] =
                   Finish(@, HandleApiError(error), <<>>,
                          Outcome("error", <<>>, error))]
  /\ UNCHANGED <<adapter, categories, batch>>

\* Variant: the categories of the classification are added to the registry.
StubResolvesRegistering(i, classifications) ==
  /\ adapter = "stub"
  /\ calls[i].pc = "awaiting"
  /\ \E classification \in classifications :
       /\ calls' = [calls EXCEPT ![i] =
                      Finish(@, classification, <<>>, Outcome("stub", <<>>, NoError))]
       /\ categories' =
            categories \o [k \in 1..Len(classification.categories) |->
                             Category(classification.categories[k], "",
                                      classification.severity)]
  /\ UNCHANGED <<adapter, batch>>

\* The test double resolves with one of classifications.
StubResolves(i, classifications) ==
  /\ adapter = "stub"
  /\ calls[i].pc = "awaiting"
  /\ \E classification \in classifications :
       calls' = [calls EXCEPT ![i] =
                   Finish(@, classification, <<>>, Outcome("stub", <<>>, NoError))]
  /\ UNCHANGED <<adapter, categories, batch>>

\* The test double rejects: moderateContent has no handler, its promise
\* rejects.
StubRejects(i) ==
  /\ adapter = "stub"
  /\ calls[i].pc = "awaiting"
  /\ calls' = [calls EXCEPT ![i].pc = "threw",
                            ![i].outcome = Outcome("stub_error", <<>>, NoError)]
  /\ UNCHANGED <<adapter, categories, batch>>

\* The caller has taken the outcome of call i; the slot serves a new call.
Return(i) ==
  /\ calls[i].pc \in {"done", "threw"}
  /\ calls' = [calls EXCEPT ![i] = IdleCall]
  /\ UNCHANGED <<adapter, categories, batch>>

\* getCategories()
getCategories == categories

(***************************************************************************)
(* ModerationController.moderateBatch                                      *)
(*   The handler answers a body that is no array, is empty or is longer    *)
(*   than MaxBatchSize at once. Otherwise requests.map calls its callback  *)
(*   for every item in turn: each callback calls moderateContent, which     *)
(*   runs up to its await, and awaits the promise it returns; the handler   *)
(*   then awaits Promise.all of the promises of the callbacks. The          *)
(*   callbacks of the calls that returned or threw before any await resume  *)
(*   first, in the order of the items, before any adapter call can settle.  *)
(*   express.json gives every request a body, so reading req.body.contents  *)
(*   never throws and the outer catch is not entered.                       *)
(***************************************************************************)
\* What the callback of requests.map returns for the item at index, once
\* its moderateContent call has returned or thrown.
ItemResult(index, call) ==
  [index |-> index, success |-> call.pc = "done",
   data |-> IF call.pc = "done" THEN call.verdict ELSE NoVerdict,
   error |-> IF call.pc = "done" THEN "" ELSE "Failed to moderate content"]

\* The promise of the callback of item i (the i-th of requests.map) is
\* fulfilled with value.
Settled(i, value) == [promise |-> i, value |-> value]

\* The callbacks of the first n calls of started that are not suspended,
\* in the order of the items.
SettledAtOnce(started, n) ==
  LET items == SelectSeq([k \in 1..n |-> k], LAMBDA k : started[k].pc # "awaiting")
  IN  [j \in 1..Len(items) |->
         Settled(items[j], ItemResult(items[j] - 1, started[items[j]]))]

\* Promise.all: the values of the promises, in the order of the promises.
PromiseAll(settled) ==
  [k \in 1..Len(settled) |->
     settled[CHOOSE j \in 1..Len(settled) : settled[j].promise = k].value]

moderateBatch(bodies) ==
  /\ batch.pc = "idle"
  /\ \A i \in DOMAIN calls : calls[i].pc = "idle"
  /\ \E body \in bodies :
       LET requests == body.items
           started == [i \in DOMAIN calls |->
                         IF i <= Len(requests) THEN StartModeration(requests[i])
                         ELSE calls[i]]
       IN  IF ~body.isArray \/ Len(requests) = 0
           THEN /\ batch' = Batch("responded", body, <<>>, 400, "Invalid request", <<>>)
                /\ UNCHANGED calls
           ELSE IF Len(requests) > MaxBatchSize
           THEN /\ batch' = Batch("responded", body, <<>>, 400, "Too many requests",
                                  <<>>)
                /\ UNCHANGED calls
           ELSE /\ calls' = started
                /\ batch' = Batch("running", body,
                                  SettledAtOnce(started, Len(requests)), 0, "", <<>>)
  /\ UNCHANGED <<adapter, categories>>

\* The callback of item i resumes behind its await, the moderateContent call
\* having returned or thrown, and returns.
MapCallbackReturns(i) ==
  /\ batch.pc = "running"
  /\ i <= Len(batch.body.items)
  /\ calls[i].pc \in {"done", "threw"}
  /\ \A k \in 1..Len(batch.results) : batch.results[k].promise # i
  /\ batch' = [batch EXCEPT
                 !.results = Append(@, Settled(i, ItemResult(i - 1, calls[i])))]
  /\ UNCHANGED <<adapter, categories, calls>>

\* Variant: data holds the values in the order the callbacks returned.
BatchRespondsInCompletionOrder ==
  /\ batch.pc = "running"
  /\ Len(batch.results) = Len(batch.body.items)
  /\ batch' = [batch EXCEPT
                 !.pc = "responded", !.status = 200,
                 !.data = [k \in 1..Len(batch.results) |-> batch.results[k].value]]
  /\ UNCHANGED <<adapter, categories, calls>>

\* Every callback has returned: Promise.all is fulfilled and the handler
\* sends res.json({success: true, data: results, timestamp}).
BatchResponds ==
  /\ batch.pc = "running"
  /\ Len(batch.results) = Len(batch.body.items)
  /\ batch' = [batch EXCEPT
                 !.pc = "responded", !.status = 200,
                 !.data = PromiseAll(batch.results)]
  /\ UNCHANGED <<adapter, categories, calls>>

\* The response has been sent; the controller serves the next request.
BatchReturns ==
  /\ batch.pc = "responded"
  /\ batch' = NoBatch
  /\ calls' = [i \in DOMAIN calls |-> IdleCall]
  /\ UNCHANGED <<adapter, categories>>

(***************************************************************************)
(* Inputs.                                                                 *)
(***************************************************************************)
Hello == <<Run("h", 1), Run("e", 1), Run("l", 2), Run("o", 1)>>
TwoWords == <<Run("A", 1), Run("b", 1), Run(" ", 1), Run("c", 1), Run("d", 1)>>
EmptyString == <<>>
Spaces == <<Run(" ", 3)>>
MixedWhitespace == <<Run(" ", 1), Run("\n", 2), Run("\t", 1)>>
TooLong == <<Run("a", MaxContentLength + 1)>>
RepeatedChars == <<Run("a", MinRepeats + 3)>>
\* aaa aaa ... aaa: MinWords + 1 tokens.
RepeatedWords ==
  [k \in 1..(2 * MinWords + 1) |-> IF k % 2 = 1 THEN Run("a", 3) ELSE Run(" ", 1)]
\* 54 characters, 27 of them special, no run of 10.
SpecialDense ==
  <<Run("!", 9), Run("a", 9), Run("?", 9), Run("b", 9), Run("!", 9), Run("c", 9)>>

\* Exactly MaxContentLength characters, bare and between whitespace.
ExactlyMax == <<Run("a", MaxContentLength)>>
PaddedMax == <<Run(" ", 5), Run("a", MaxContentLength), Run("\n", 5)>>
\* MaxContentLength + 2 characters once trimmed, no run of 10 000.
PaddedTooLong ==
  <<Run(" ", 2), Run("a", MaxContentLength \div 2), Run(" ", 1),
    Run("b", MaxContentLength \div 2 + 1), Run("\t", 1)>>
\* a, ten line feeds, b.
LineBreaks == <<Run("a", 1), Run("\n", 1 + MinRepeats), Run("b", 1)>>
\* a, ten blanks, b; and ten blanks before hi.
TenBlanks == <<Run("a", 1), Run(" ", 1 + MinRepeats), Run("b", 1)>>
LeadingBlanks == <<Run(" ", 1 + MinRepeats), Run("h", 1), Run("i", 1)>>
\* MinWords + 1 tokens of twelve a each: repeated characters and repetition.
RepeatedAndRepetitive ==
  [k \in 1..(2 * MinWords + 1) |->
     IF k % 2 = 1 THEN Run("a", MinRepeats + 3) ELSE Run(" ", 1)]
\* 13 tokens !!!: 51 characters, repetition and special characters.
RepetitiveAndSpecial ==
  [k \in 1..25 |-> IF k % 2 = 1 THEN Run("!", 3) ELSE Run(" ", 1)]

PassingContents == {Hello, TwoWords, LineBreaks}
FlaggedContents ==
  {EmptyString, Spaces, MixedWhitespace, TooLong, RepeatedChars, RepeatedWords,
   SpecialDense, ExactlyMax, PaddedMax, PaddedTooLong, TenBlanks, LeadingBlanks,
   RepeatedAndRepetitive, RepetitiveAndSpecial}
Contents == PassingContents \cup FlaggedContents

UserIds == {Absent, "user123"}
Platforms == {Absent, "youtube", "YouTube", "twitter"}

Requests ==
  {Request(Str(c), u, p) : c \in Contents, u \in UserIds, p \in Platforms}
  \cup {Request(NotAString, Absent, Absent)}

\* Response texts of the backend.
ConfidenceValues ==
  {Undefined, Null, Number(0), Number(30), Number(85), Number(100), Number(150),
   Number(-20), String("0.7"), String("high")}
CategoriesValues ==
  {Undefined, Array(<<>>), Array(<<"violence">>),
   Array(<<"explicit_content", "spam">>), Array(<<"api_error", "hate_speech">>)}
SeverityValues ==
  {Undefined, String(""), String("low"), String("medium"), String("high"),
   String("critical"), String("severe")}
JsonObjects ==
  {Object(p, c, cats, IF p = Undefined THEN Undefined ELSE String("Because."), sev) :
     p \in {Undefined, Bool(TRUE), Bool(FALSE)}, c \in ConfidenceValues,
     cats \in CategoriesValues, sev \in SeverityValues}
SampleObject ==
  Object(Bool(TRUE), Number(85), Array(<<"violence">>), String("Because."),
         String("high"))
ResponseTexts ==
  {<<Json(d)>> : d \in JsonObjects}
  \cup { <<FenceJson, Ws, Json(SampleObject), Ws, Fence>>,
         <<Fence, Json(SampleObject), Fence>>,
         <<Ws, Json(SampleObject), Ws>>,
         <<Prose, Json(SampleObject)>>,
         <<Json(SampleObject), Ws, Json(SampleObject)>>,
         <<Json(NullDoc)>>, <<Json(PrimitiveDoc)>>, <<Prose>>, <<>> }

\* Failures of the backend call.
Statuses == {400, 401, 403, 404, 429, 499, 500, 503}
Errors ==
  {Error(TRUE, TRUE, st) : st \in Statuses}
  \cup {Error(TRUE, FALSE, 0), NoError}

\* Classifications a test double hands to the normalizer.
StubConfidences ==
  {Num(-10), Num(0), Num(20), Num(49), Num(50), Num(79), Num(85), Num(95),
   Num(100), Num(150), NaN}
StubCategories ==
  { <<>>, <<"violence">>, <<"explicit_content">>, <<"spam", "hate_speech">>,
    <<"hate_speech", "harassment", "violence", "misinformation", "spam">>,
    <<"spam", "misinformation", "violence", "harassment", "hate_speech">>,
    <<"self_harm", "unknown_category">>, <<"explicit_content", "violence">>,
    <<"api_error">>, <<"violence", "api_rate_limit">>, <<"api_auth_error">>,
    <<"api_server_error", "explicit_content">> }
StubSeverities == {"low", "medium", "high", "critical", "severe"}
StubClassifications ==
  {Classification(p, c, cats, "Mock response", sev) :
     p \in BOOLEAN, c \in StubConfidences, cats \in StubCategories,
     sev \in StubSeverities}

(***************************************************************************)
(* Spec: one ContentModerator serving a client that awaits each call       *)
(* before it issues the next.                                              *)
(***************************************************************************)
Init == \E service \in {"gemini", "stub"} : Construct(service)

\* No other call is in flight.
Sequential(i) == \A j \in CallIds \ {i} : calls[j].pc = "idle"

Next ==
  \E i \in CallIds :
    \/ Sequential(i) /\ moderateContent(i, Requests)
    \/ GenerateContentResolves(i, ResponseTexts)
    \/ GenerateContentRejects(i, Errors)
    \/ StubResolves(i, StubClassifications)
    \/ StubRejects(i)
    \/ Return(i)

Spec == Init /\ [][Next]_vars

(***************************************************************************)
(* BatchSpec: the calls are in flight together, as the calls                *)
(* ModerationController.moderateBatch makes inside Promise.all: each is     *)
(* suspended at its await and resumed when its adapter call settles, in     *)
(* any order.                                                               *)
(***************************************************************************)
BatchRequests ==
  {Request(Str(c), Absent, p) :
     c \in {Hello, LineBreaks, RepeatedChars, EmptyString},
     p \in {Absent, "youtube"}}

BatchTexts ==
  { <<Json(SampleObject)>>,
    <<Json(Object(Bool(TRUE), Number(30), Array(<<"explicit_content", "spam">>),
                  String("Because."), String("low")))>>,
    <<FenceJson, Ws, Json(SampleObject), Ws, Fence>>,
    <<Prose>> }

BatchErrors == {Error(TRUE, TRUE, 429), Error(TRUE, TRUE, 503), NoError}

BatchClassifications ==
  { Classification(FALSE, Num(50), <<>>, "Mock response", "low"),
    Classification(TRUE, Num(30), <<"violence">>, "Mock response", "critical"),
    Classification(FALSE, Num(20), <<"explicit_content", "spam">>, "Mock response",
                   "medium"),
    Classification(TRUE, Num(85), <<"hate_speech", "harassment">>, "Mock response",
                   "high"),
    Classification(TRUE, Num(95), <<"api_error">>, "Mock response", "low") }

BatchNext ==
  \E i \in CallIds :
    \/ moderateContent(i, BatchRequests)
    \/ GenerateContentResolves(i, BatchTexts)
    \/ GenerateContentRejects(i, BatchErrors)
    \/ StubResolves(i, BatchClassifications)
    \/ StubRejects(i)
    \/ Return(i)

BatchSpec == Init /\ [][BatchNext]_vars

(***************************************************************************)
(* ValidationSpec: performBasicValidation over contents built by token      *)
(* counts and by character counts around the thresholds of the repetition   *)
(* and the special-character checks; one outcome of each kind for the       *)
(* adapter call of a content that passes.                                   *)
(***************************************************************************)
\* The tokens aaa, ab (two characters), AbA and aba (equal once lower-cased)
\* and x.
Aaa == <<Run("a", 3)>>
Ab == <<Run("a", 1), Run("b", 1)>>
UpperAbA == <<Run("A", 1), Run("b", 1), Run("A", 1)>>
LowerAba == <<Run("a", 1), Run("b", 1), Run("a", 1)>>
Filler == <<Run("x", 1)>>

\* n tokens: k times word, then fillers.
Tokens(word, k, n) == [j \in 1..n |-> IF j <= k THEN word ELSE Filler]

\* n tokens: AbA and aba in turn, k in all, then fillers.
MixedCaseTokens(k, n) ==
  [j \in 1..n |-> IF j > k THEN Filler ELSE IF j % 2 = 1 THEN UpperAbA ELSE LowerAba]

\* The tokens with one blank between them.
RECURSIVE Join(_)
Join(tokens) ==
  IF Len(tokens) = 0 THEN <<>>
  ELSE IF Len(tokens) = 1 THEN tokens[1]
  ELSE tokens[1] \o <<Run(" ", 1)>> \o Join(Tail(tokens))

\* Token counts around words.length > 10, and 20 for the ratio 6/20 = 0.3.
TokenCounts == {9, 10, 11, 20}
\* Occurrence counts of the repeated token.
RepeatCounts == {0, 3, 4, 6, 7, 9, 10, 11}

RepetitionContents ==
  {Join(Tokens(word, k, n)) :
     word \in {Aaa, Ab}, k \in RepeatCounts, n \in TokenCounts}
  \cup {Join(MixedCaseTokens(k, n)) : k \in RepeatCounts, n \in TokenCounts}
  \* a blank before ten tokens: eleven tokens for split, the first one empty
  \cup {<<Run(" ", 1)>> \o Join(Tokens(Aaa, k, 10)) : k \in RepeatCounts}
  \* ten tokens and the token constructor
  \cup {Join(Tokens(Aaa, k, 10) \o <<ConstructorWord>>) : k \in RepeatCounts}
  \* the token __proto__ among eleven
  \cup {Join(Tokens(ProtoWord, 4, 11))}

\* n characters in runs of 9 at most, of c1 and c2 in turn.
Fill(c1, c2, n) ==
  [j \in 1..((n + 8) \div 9) |->
     Run(IF j % 2 = 1 THEN c1 ELSE c2, IF 9 * j <= n THEN 9 ELSE n - 9 * (j - 1))]

\* Content lengths around totalCharCount > 50; 55 for the ratio 11/55 = 0.2.
ContentLengths == {49, 50, 51, 55, 60}
\* Numbers of special characters.
SpecialCounts == {0, 9, 10, 11, 12, 13, 49, 50, 51}

DensityContents ==
  {Fill("!", "?", sp) \o Fill("a", "b", len - sp) :
     sp \in SpecialCounts, len \in ContentLengths}
  \* 48 characters, 11 of them special, and three blanks behind them
  \cup {Fill("!", "?", 11) \o Fill("a", "b", 37) \o <<Run(" ", 3)>>}

ValidationRequests ==
  {Request(Str(c), Absent, Absent) :
     c \in {c \in RepetitionContents \cup DensityContents : c # <<>>}}

ValidationTexts == {<<Json(SampleObject)>>}
ValidationErrors == {Error(TRUE, TRUE, 503)}
ValidationClassifications ==
  {Classification(FALSE, Num(50), <<>>, "Mock response", "low")}

ValidationNext ==
  \E i \in CallIds :
    \/ Sequential(i) /\ moderateContent(i, ValidationRequests)
    \/ GenerateContentResolves(i, ValidationTexts)
    \/ GenerateContentRejects(i, ValidationErrors)
    \/ StubResolves(i, ValidationClassifications)
    \/ StubRejects(i)
    \/ Return(i)

ValidationSpec == Init /\ [][ValidationNext]_vars

(***************************************************************************)
(* TerminationSpec: a client that awaits each call, and a backend whose     *)
(* every call eventually settles: generateContent returns a promise that    *)
(* the client library resolves or rejects, and the continuation of the      *)
(* await runs once it has.                                                  *)
(***************************************************************************)
BackendSettles(i) ==
  \/ GenerateContentResolves(i, BatchTexts)
  \/ GenerateContentRejects(i, BatchErrors)

TerminationNext ==
  \E i \in CallIds :
    \/ Sequential(i) /\ moderateContent(i, BatchRequests)
    \/ GenerateContentResolves(i, BatchTexts)
    \/ GenerateContentRejects(i, BatchErrors)
    \/ StubResolves(i, BatchClassifications)
    \/ StubRejects(i)
    \/ Return(i)

TerminationSpec ==
  /\ Init
  /\ [][TerminationNext]_vars
  /\ \A i \in CallIds : WF_vars(BackendSettles(i))

(***************************************************************************)
(* ControllerSpec: a ModerationController serving one moderateBatch         *)
(* request after the other.                                                *)
(***************************************************************************)
HelloRequest == Request(Str(Hello), Absent, Absent)
YoutubeRequest == Request(Str(Hello), "user123", "youtube")
FlaggedRequest == Request(Str(RepeatedChars), Absent, Absent)
NoContentRequest == Request(NotAString, Absent, Absent)

ControllerRequests ==
  {HelloRequest, YoutubeRequest, FlaggedRequest, NoContentRequest}

\* No array, the empty array, the arrays of one and of two items, one of
\* three, one of MaxBatchSize items (two of them reach the adapter) and one
\* of MaxBatchSize + 1.
Bodies ==
  {NotAnArray, Body(TRUE, <<>>)}
  \cup {Body(TRUE, <<a>>) : a \in ControllerRequests}
  \cup {Body(TRUE, <<a, b>>) : a, b \in ControllerRequests}
  \cup {Body(TRUE, <<YoutubeRequest, NoContentRequest, HelloRequest>>),
        Body(TRUE, [k \in 1..MaxBatchSize |->
                      IF k = 2 THEN NoContentRequest
                      ELSE IF k = 5 THEN HelloRequest
                      ELSE IF k = MaxBatchSize THEN YoutubeRequest
                      ELSE FlaggedRequest]),
        Body(TRUE, [k \in 1..(MaxBatchSize + 1) |-> FlaggedRequest])}

ControllerNext ==
  \/ moderateBatch(Bodies)
  \/ \E i \in DOMAIN calls :
       \/ GenerateContentResolves(i, BatchTexts)
       \/ GenerateContentRejects(i, BatchErrors)
       \/ StubResolves(i, BatchClassifications)
       \/ StubRejects(i)
       \/ MapCallbackReturns(i)
  \/ BatchResponds
  \/ BatchReturns

ControllerSpec == Init /\ [][ControllerNext]_vars

(***************************************************************************)
(* Properties.                                                             *)
(***************************************************************************)
\* The number of occurrences of x in seq.
Count(seq, x) == Cardinality({k \in 1..Len(seq) : seq[k] = x})

\* Call i was made with a string content.
Started(i) == calls[i].pc # "idle" /\ calls[i].request.content.isString

\* The content of call i is flagged by performBasicValidation.
Flagged(i) == performBasicValidation(calls[i].request.content.runs).isProblematic

\* Call i returned a verdict produced by applyBusinessRules.
Normalized(i) == calls[i].pc = "done" /\ Includes(calls[i].events, "applyBusinessRules")

HasApiErrorCategory(cats) ==
  \E k \in 1..Len(cats) :
    cats[k] \in {"api_rate_limit", "api_auth_error", "api_server_error", "api_error"}

\* C1: a call whose content performBasicValidation flags has returned exactly
\* the verdict of performBasicValidation, and has invoked neither the adapter
\* (geminiService.moderateContent, generateContent) nor applyBusinessRules.
C1_HeuristicVerdictReturnedUnchanged ==
  \A i \in CallIds :
    (Started(i) /\ Flagged(i)) =>
      /\ calls[i].pc = "done"
      /\ calls[i].verdict = performBasicValidation(calls[i].request.content.runs)
      /\ calls[i].events = <<"performBasicValidation">>

\* A flagged call has returned a verdict that applyBusinessRules would have
\* changed (severity high).
C1_Witness ==
  \E i \in CallIds :
    /\ calls[i].pc = "done"
    /\ calls[i].request.content = Str(RepeatedChars)
    /\ calls[i].verdict.severity = "high"
    /\ applyBusinessRules(calls[i].verdict, calls[i].request) # calls[i].verdict

\* C2: a call whose content passes every heuristic check has invoked the
\* adapter exactly once (and, with a GeminiService, generateContent exactly
\* once) from its suspension on; once it has returned, applyBusinessRules
\* has run exactly once, as the last operation, and before that not at all.
C2_ClassifierInvokedExactlyOnce ==
  \A i \in CallIds :
    (Started(i) /\ ~Flagged(i)) =>
      /\ Count(calls[i].events, "geminiService.moderateContent") = 1
      /\ Count(calls[i].events, "generateContent") = (IF adapter = "gemini" THEN 1 ELSE 0)
      /\ Count(calls[i].events, "applyBusinessRules")
           = (IF calls[i].pc = "done" THEN 1 ELSE 0)
      /\ calls[i].pc = "done" =>
           calls[i].events[Len(calls[i].events)] = "applyBusinessRules"

\* A call has returned after its one backend call failed with a server fault.
C2_Witness ==
  \E i \in CallIds :
    /\ adapter = "gemini"
    /\ calls[i].pc = "done"
    /\ calls[i].outcome.kind = "error"
    /\ calls[i].outcome.error.status = 503
    /\ Count(calls[i].events, "generateContent") = 1

\* The six fields of a verdict, each of its type.
WellFormedVerdict(v) ==
  /\ DOMAIN v = {"isProblematic", "confidence", "categories", "reasoning",
                 "severity", "recommendations"}
  /\ v.isProblematic \in BOOLEAN
  /\ DOMAIN v.confidence = {"nan", "v"}
  /\ DOMAIN v.categories = 1..Len(v.categories)
  /\ DOMAIN v.recommendations = 1..Len(v.recommendations)

\* C3: with a GeminiService as adapter, a call made with a string content
\* never throws, whatever the backend call settles with, and what it returns
\* is a verdict with the six fields.
C3_NeverThrows ==
  \A i \in CallIds :
    (adapter = "gemini" /\ Started(i)) =>
      /\ calls[i].pc # "threw"
      /\ calls[i].pc = "done" => WellFormedVerdict(calls[i].verdict)

\* A call has returned a verdict after the backend call threw a value
\* that carries no status.
C3_Witness ==
  \E i \in CallIds :
    /\ adapter = "gemini"
    /\ calls[i].pc = "done"
    /\ calls[i].outcome.kind = "error"
    /\ ~calls[i].outcome.error.hasStatus
    /\ calls[i].verdict.categories = <<"api_error">>

\* C4: a verdict normalized from a classification with an API-error category
\* has isProblematic = false and the unavailability recommendation as its
\* only recommendation.
C4_ApiErrorOverride ==
  \A i \in CallIds :
    (Normalized(i) /\ HasApiErrorCategory(calls[i].classification.categories)) =>
      /\ calls[i].verdict.isProblematic = FALSE
      /\ calls[i].verdict.recommendations = <<UnavailableRecommendation>>

\* The override has acted on a classification that was problematic,
\* critical, mixed an API-error category with explicit_content, on youtube.
C4_Witness ==
  \E i \in CallIds :
    /\ Normalized(i)
    /\ calls[i].classification.isProblematic
    /\ calls[i].classification.severity = "critical"
    /\ calls[i].classification.categories = <<"api_server_error", "explicit_content">>
    /\ calls[i].request.platform = "youtube"
    /\ calls[i].verdict.recommendations = <<UnavailableRecommendation>>

\* A number in [0, 1].
InUnitRange(c) == ~c.nan /\ 0 <= c.v /\ c.v <= 100

\* C5: whatever text the backend returns, the verdict of a call served by a
\* GeminiService has a confidence in [0, 1].
C5_ConfidenceInUnitRange ==
  \A i \in CallIds :
    (adapter = "gemini" /\ calls[i].pc = "done" /\ calls[i].outcome.kind = "text") =>
      InUnitRange(calls[i].verdict.confidence)

\* C6: whatever classification a test double hands to applyBusinessRules
\* (one with confidence 1.5, say), the verdict has a confidence in [0, 1].
C6_StubConfidenceInUnitRange ==
  \A i \in CallIds :
    (adapter = "stub" /\ Normalized(i)) => InUnitRange(calls[i].verdict.confidence)

Severities == {"low", "medium", "high", "critical"}

\* The text, the fence markers and the whitespace removed, is one JSON
\* document other than null.
Parseable(text) ==
  LET body == SelectSeq(text, LAMBDA ch : ch.k \notin {"fence_json", "fence", "ws"})
  IN  Len(body) = 1 /\ body[1].k = "json" /\ body[1].doc.kind # "null"

\* The severity property of the one JSON document of a parseable text.
BackendSeverity(text) ==
  SelectSeq(text, LAMBDA ch : ch.k = "json")[1].doc.severity

\* C7: every verdict a call served by a GeminiService returns has a severity
\* among low, medium, high, critical; where the severity of the backend is
\* missing or a string outside that set (and the youtube override, which sets
\* high, does not apply) the severity of the verdict is low.
C7_SeverityInEnum ==
  \A i \in CallIds :
    (adapter = "gemini" /\ calls[i].pc = "done") =>
      /\ calls[i].verdict.severity \in Severities
      /\ ( /\ calls[i].outcome.kind = "text"
           /\ Parseable(calls[i].outcome.text)
           /\ ~(BackendSeverity(calls[i].outcome.text).t = "string"
                /\ BackendSeverity(calls[i].outcome.text).s \in Severities)
           /\ ~(calls[i].request.platform = "youtube"
                /\ Includes(calls[i].verdict.categories, "explicit_content")) )
         => calls[i].verdict.severity = "low"

\* The backend call failed, or its text could not be parsed.
BackendError(i) ==
  /\ adapter = "gemini"
  /\ Normalized(i)
  /\ \/ calls[i].outcome.kind = "error"
     \/ calls[i].outcome.kind = "text" /\ ~Parseable(calls[i].outcome.text)

\* C8 as stated: every backend error, a parse failure included, yields a
\* classification with severity low, isProblematic false and an api_* category.
C8_EveryBackendErrorTagged ==
  \A i \in CallIds :
    BackendError(i) =>
      /\ calls[i].classification.severity = "low"
      /\ calls[i].classification.isProblematic = FALSE
      /\ HasApiErrorCategory(calls[i].classification.categories)

\* C8 amended: every backend error yields a classification with severity low
\* and isProblematic false; a failed call is tagged with an api_* category, a
\* parse failure has no category at all.
C8_BackendErrorClassification ==
  \A i \in CallIds :
    BackendError(i) =>
      /\ calls[i].classification.severity = "low"
      /\ calls[i].classification.isProblematic = FALSE
      /\ calls[i].outcome.kind = "error" =>
           HasApiErrorCategory(calls[i].classification.categories)
      /\ calls[i].outcome.kind = "text" => calls[i].classification.categories = <<>>

\* A call has returned after the backend answered with prose.
C8_Witness ==
  \E i \in CallIds :
    /\ BackendError(i)
    /\ calls[i].outcome.text = <<Prose>>
    /\ calls[i].classification.reasoning = "Failed to parse AI response"

\* The category a failure gets, by its status.
ExpectedApiCategory(error) ==
  IF ~(error.isObject /\ error.hasStatus) THEN "api_error"
  ELSE CASE error.status = 429          -> "api_rate_limit"
         [] error.status \in {401, 403} -> "api_auth_error"
         [] error.status >= 500         -> "api_server_error"
         [] OTHER                       -> "api_error"

WhitespaceOnly(s) == \A k \in 1..Len(s) : IsWhitespace(s[k].ch)

\* C10: a call whose content is empty or whitespace only has returned
\* isProblematic true, categories [empty_content], severity low, confidence
\* 1.0, and has not invoked the adapter.
C10_EmptyContent ==
  \A i \in CallIds :
    (Started(i) /\ WhitespaceOnly(calls[i].request.content.runs)) =>
      /\ calls[i].pc = "done"
      /\ calls[i].verdict.isProblematic = TRUE
      /\ calls[i].verdict.categories = <<"empty_content">>
      /\ calls[i].verdict.severity = "low"
      /\ calls[i].verdict.confidence = Num(100)
      /\ ~Includes(calls[i].events, "geminiService.moderateContent")
      /\ ~Includes(calls[i].events, "generateContent")

\* A call with a content of blanks, line breaks and a tab has returned.
C10_Witness ==
  \E i \in CallIds :
    /\ calls[i].pc = "done"
    /\ calls[i].request.content = Str(MixedWhitespace)
    /\ calls[i].verdict.categories = <<"empty_content">>

\* Call i has invoked the adapter.
InvokedAdapter(i) ==
  \/ Includes(calls[i].events, "geminiService.moderateContent")
  \/ Includes(calls[i].events, "generateContent")

\* Call i returned the verdict of performBasicValidation.
ShortCircuited(i) ==
  calls[i].pc = "done" /\ calls[i].events = <<"performBasicValidation">>

\* C11: a call whose content is longer than 10,000 characters once trimmed has
\* returned isProblematic true, categories [excessive_length], severity medium,
\* confidence 0.8 without invoking the adapter; a content of at most 10,000
\* characters once trimmed (exactly 10,000, or more only by surrounding
\* whitespace) is not given the excessive_length verdict.
C11_ExcessiveLength ==
  \A i \in CallIds :
    Started(i) =>
      LET trimmedLength == StrLen(Trim(calls[i].request.content.runs))
      IN  /\ trimmedLength > MaxContentLength =>
               /\ calls[i].pc = "done"
               /\ calls[i].verdict.isProblematic = TRUE
               /\ calls[i].verdict.categories = <<"excessive_length">>
               /\ calls[i].verdict.severity = "medium"
               /\ calls[i].verdict.confidence = Num(80)
               /\ ~InvokedAdapter(i)
          /\ trimmedLength <= MaxContentLength =>
               ~(ShortCircuited(i) /\ Includes(calls[i].verdict.categories,
                                                "excessive_length"))

\* A call whose content has 10,002 characters between surrounding whitespace
\* has returned the excessive_length verdict.
C11_Witness ==
  \E i \in CallIds :
    /\ ShortCircuited(i)
    /\ calls[i].request.content = Str(PaddedTooLong)
    /\ StrLen(calls[i].request.content.runs) > StrLen(Trim(calls[i].request.content.runs))
    /\ calls[i].verdict = ExcessiveLengthVerdict

\* Some character occurs at least n times in a row.
HasRun(content, n) == \E k \in 1..Len(content) : content[k].n >= n

\* C12: a call whose content has between 1 and 10,000 characters once trimmed
\* and holds some character (a line break included) 10 or more times in a row
\* has returned isProblematic true, categories [spam], severity high,
\* confidence 0.9 without invoking the adapter; with no run longer than 9 the
\* repeated-character verdict is not returned.
C12_RepeatedCharacters ==
  \A i \in CallIds :
    LET content == calls[i].request.content.runs
        trimmedLength == StrLen(Trim(content))
    IN  (Started(i) /\ 1 <= trimmedLength /\ trimmedLength <= MaxContentLength) =>
          /\ HasRun(content, 1 + MinRepeats) =>
               /\ calls[i].pc = "done"
               /\ calls[i].verdict.isProblematic = TRUE
               /\ calls[i].verdict.categories = <<"spam">>
               /\ calls[i].verdict.severity = "high"
               /\ calls[i].verdict.confidence = Num(90)
               /\ ~InvokedAdapter(i)
          /\ ~HasRun(content, 1 + MinRepeats) =>
               ~(ShortCircuited(i) /\ calls[i].verdict = RepeatedCharsVerdict)

\* The five checks, numbered in the order empty, excessive length, repeated
\* character, repetition ratio, special-character density.
Matches(content, k) ==
  CASE k = 1 -> StrLen(Trim(content)) = 0
    [] k = 2 -> StrLen(Trim(content)) > MaxContentLength
    [] k = 3 -> HasRepeatedChars(content)
    [] k = 4 -> ExcessiveRepetition(Split(ToLowerCase(content)))
    [] k = 5 -> ExcessiveSpecialChars(content)

\* The checks the content matches.
Matching(content) == {k \in 1..5 : Matches(content, k)}

\* The verdict of each check.
CheckVerdicts ==
  << EmptyContentVerdict, ExcessiveLengthVerdict, RepeatedCharsVerdict,
     RepetitionVerdict, SpecialCharsVerdict >>

\* C13: a call whose content matches one or more of the five checks has
\* returned the verdict of the earliest of them in the order empty, excessive
\* length, repeated character, repetition ratio, special-character density.
C13_FirstMatchWins ==
  \A i \in CallIds :
    Started(i) =>
      LET matching == Matching(calls[i].request.content.runs)
      IN  matching # {} =>
            /\ ShortCircuited(i)
            /\ calls[i].verdict =
                 CheckVerdicts[CHOOSE k \in matching : \A m \in matching : k <= m]

\* A call with 10,001 identical characters, matching the length and the
\* repeated-character checks, has returned excessive_length.
C13_Witness ==
  \E i \in CallIds :
    /\ ShortCircuited(i)
    /\ calls[i].request.content = Str(TooLong)
    /\ Matching(calls[i].request.content.runs) = {2, 3}
    /\ calls[i].verdict.categories = <<"excessive_length">>

\* Call i returned a verdict normalized from a classification without an
\* API-error category.
Ruled(i) ==
  Normalized(i) /\ ~HasApiErrorCategory(calls[i].classification.categories)

\* C14: a verdict normalized from a classification with severity critical and
\* no API-error category has isProblematic = true, the confidence
\* max(classification confidence, 0.9), which is at least 0.9, and the
\* recommendation of immediate removal.
C14_CriticalFloor ==
  \A i \in CallIds :
    (Ruled(i) /\ calls[i].classification.severity = "critical") =>
      /\ calls[i].verdict.isProblematic = TRUE
      /\ calls[i].verdict.confidence =
           MathMax(calls[i].classification.confidence, Num(90))
      /\ ~calls[i].verdict.confidence.nan
      /\ calls[i].verdict.confidence.v >= 90
      /\ Includes(calls[i].verdict.recommendations,
                  "Immediate content removal required")

\* C15: a verdict normalized from a classification with severity high and no
\* API-error category has isProblematic = true, whatever the classifier
\* reported and however low its confidence, the confidence
\* max(classification confidence, 0.8), and the recommendation of human review.
C15_HighFloor ==
  \A i \in CallIds :
    (Ruled(i) /\ calls[i].classification.severity = "high") =>
      /\ calls[i].verdict.isProblematic = TRUE
      /\ calls[i].verdict.confidence =
           MathMax(calls[i].classification.confidence, Num(80))
      /\ Includes(calls[i].verdict.recommendations,
                  "Content should be reviewed by human moderators")

\* A classification not problematic, high, of confidence 0.2 has been
\* normalized to a problematic verdict of confidence 0.8.
C15_Witness ==
  \E i \in CallIds :
    /\ Ruled(i)
    /\ calls[i].classification.severity = "high"
    /\ calls[i].classification.isProblematic = FALSE
    /\ calls[i].classification.confidence = Num(20)
    /\ calls[i].verdict.isProblematic = TRUE
    /\ calls[i].verdict.confidence = Num(80)

\* C16: in a verdict normalized from a classification without an API-error
\* category, isProblematic is false when the confidence is below 0.5 and the
\* severity is low (both as they stand after the floors and the platform
\* rule, which are the values of the verdict); otherwise it is what the
\* floors made of it: true for the severities critical and high, the value of
\* the classification for any other.
C16_LowConfidenceSuppression ==
  \A i \in CallIds :
    Ruled(i) =>
      calls[i].verdict.isProblematic =
        IF /\ NumLt(calls[i].verdict.confidence, Num(50))
           /\ calls[i].verdict.severity = "low"
        THEN FALSE
        ELSE \/ calls[i].classification.isProblematic
             \/ calls[i].classification.severity \in {"critical", "high"}

\* The classification problematic, medium, of confidence 0.2 and without
\* categories has been normalized to a problematic verdict of confidence 0.2.
C16_Witness ==
  \E i \in CallIds :
    /\ Ruled(i)
    /\ calls[i].classification.isProblematic = TRUE
    /\ calls[i].classification.severity = "medium"
    /\ calls[i].classification.confidence = Num(20)
    /\ calls[i].classification.categories = <<>>
    /\ calls[i].verdict.isProblematic = TRUE
    /\ calls[i].verdict.confidence = Num(20)

\* C17: a verdict normalized from a classification without an API-error
\* category has severity high and the age-restriction recommendation when the
\* platform is youtube and explicit_content is among the categories, and the
\* severity of the classification in every other case.
C17_PlatformOverride ==
  \A i \in CallIds :
    Ruled(i) =>
      IF /\ calls[i].request.platform = "youtube"
         /\ Includes(calls[i].classification.categories, "explicit_content")
      THEN /\ calls[i].verdict.severity = "high"
           /\ Includes(calls[i].verdict.recommendations,
                       "Consider age-restricting this content")
      ELSE /\ calls[i].verdict.severity = calls[i].classification.severity
           /\ ~Includes(calls[i].verdict.recommendations,
                        "Consider age-restricting this content")

\* A critical classification with explicit_content, on youtube, has been
\* normalized to severity high.
C17_Witness ==
  \E i \in CallIds :
    /\ Ruled(i)
    /\ calls[i].request.platform = "youtube"
    /\ calls[i].classification.severity = "critical"
    /\ Includes(calls[i].classification.categories, "explicit_content")
    /\ calls[i].verdict.severity = "high"

\* C18: two calls that have returned, made with the same request and given
\* the same classification by the adapter, hold verdicts equal in every field,
\* recommendations and their order included, whichever of them ran first and
\* whatever other calls ran before or between them.
C18_Deterministic ==
  \A i, j \in CallIds :
    ( /\ calls[i].pc = "done"
      /\ calls[j].pc = "done"
      /\ calls[i].request = calls[j].request
      /\ calls[i].classification = calls[j].classification ) =>
      calls[i].verdict = calls[j].verdict

\* Two calls with the same request and classification have returned, one
\* after the other, a verdict with several recommendations.
C18_Witness ==
  \E i, j \in CallIds :
    /\ i # j
    /\ Normalized(i)
    /\ Normalized(j)
    /\ calls[i].request = calls[j].request
    /\ calls[i].classification = calls[j].classification
    /\ Len(calls[i].verdict.recommendations) >= 2
    /\ calls[i].verdict = calls[j].verdict

\* C19: getCategories returns, in every state, the sequence built at
\* construction: nine entries with pairwise distinct names, hate_speech,
\* violence and spam among them, each with a severity among low, medium,
\* high, critical.
C19_RegistryStable ==
  /\ getCategories = initializeCategories
  /\ Len(getCategories) = 9
  /\ \A a, b \in 1..Len(getCategories) :
       a # b => getCategories[a].name # getCategories[b].name
  /\ {"hate_speech", "violence", "spam"}
       \subseteq {getCategories[k].name : k \in 1..Len(getCategories)}
  /\ \A k \in 1..Len(getCategories) : getCategories[k].severity \in Severities

\* A call given a category the registry does not know has returned, and the
\* registry has its nine entries.
C19_Witness ==
  /\ \E i \in CallIds :
       /\ Normalized(i)
       /\ Includes(calls[i].classification.categories, "unknown_category")
  /\ Len(getCategories) = 9

\* The verdict of a call that runs alone, by its request and by what its
\* adapter call settled with.
VerdictAlone(call) ==
  LET basicValidation == performBasicValidation(call.request.content.runs)
  IN  IF basicValidation.isProblematic THEN basicValidation
      ELSE applyBusinessRules(
             CASE call.outcome.kind = "text"  -> parseGeminiResponse(call.outcome.text)
               [] call.outcome.kind = "error" -> HandleApiError(call.outcome.error)
               [] OTHER                       -> call.classification,
             call.request)

\* Every call that has returned holds the verdict it would hold alone.
IndependentVerdicts ==
  \A i \in CallIds :
    calls[i].pc = "done" =>
      /\ ~Flagged(i) => calls[i].outcome.kind \in {"text", "error", "stub"}
      /\ calls[i].verdict = VerdictAlone(calls[i])

\* A step changes the record of one call at most, and nothing else.
OneCallPerStep ==
  /\ \A i, j \in CallIds :
       i # j => (calls'[i] = calls[i] \/ calls'[j] = calls[j])
  /\ UNCHANGED <<adapter, categories, batch>>

\* C20: with the calls in flight together, under every interleaving of their
\* suspensions and completions, every call that has returned holds the
\* verdict it would hold alone with its request and its adapter outcome, and
\* no step of one call changes anything of another.
C20_CallsIndependent == []IndependentVerdicts /\ [][OneCallPerStep]_vars

\* Two calls were suspended together and the one issued for youtube has
\* returned while the other, with the same content, is still suspended.
C20_Witness ==
  \E i, j \in CallIds :
    /\ i # j
    /\ Normalized(i)
    /\ calls[i].request.platform = "youtube"
    /\ calls[i].verdict.severity = "high"
    /\ calls[j].pc = "awaiting"
    /\ calls[j].request.content = calls[i].request.content

\* The content matches none of the first n checks.
NoneOfFirst(content, n) == \A k \in 1..n : ~Matches(content, k)

\* The content has more than 10 tokens once lower-cased and split on
\* whitespace, and some token longer than 2 characters occurs more than 0.3
\* times the number of tokens.
RepetitionRatioAbove(content) ==
  LET words == Split(ToLowerCase(content))
      long == {k \in 1..Len(words) : StrLen(words[k]) > 2}
  IN  /\ Len(words) > 10
      /\ \E k \in long :
           10 * Cardinality({j \in 1..Len(words) : words[j] = words[k]})
             > 3 * Len(words)

\* C21: a call whose content matches none of the checks empty, excessive
\* length, repeated character returns the repetition verdict (isProblematic
\* true, categories [spam], severity medium, confidence 0.8) if and only if
\* the content has more than 10 tokens and its most frequent token longer
\* than 2 characters makes up more than 0.3 of all its tokens.
C21_RepetitionRatio ==
  \A i \in CallIds :
    LET content == calls[i].request.content.runs
    IN  (Started(i) /\ NoneOfFirst(content, 3)) =>
          ( RepetitionRatioAbove(content)
              <=> (ShortCircuited(i) /\ calls[i].verdict = RepetitionVerdict) )

\* C22: a call whose content matches none of the checks empty, excessive
\* length, repeated character, repetition ratio returns the special-character
\* verdict (isProblematic true, categories [spam], severity medium,
\* confidence 0.7) if and only if the content is longer than 50 characters and
\* more than 0.2 of its characters are special characters.
C22_SpecialCharDensity ==
  \A i \in CallIds :
    LET content == calls[i].request.content.runs
    IN  (Started(i) /\ NoneOfFirst(content, 4)) =>
          ( (StrLen(content) > 50 /\ 5 * SpecialCharCount(content) > StrLen(content))
              <=> (ShortCircuited(i) /\ calls[i].verdict = SpecialCharsVerdict) )

\* A call whose content has 51 characters, 11 of them special, has returned
\* the special-character verdict.
C22_Witness ==
  \E i \in CallIds :
    /\ ShortCircuited(i)
    /\ StrLen(calls[i].request.content.runs) = 51
    /\ SpecialCharCount(calls[i].request.content.runs) = 11
    /\ calls[i].verdict = SpecialCharsVerdict

\* The mapping from categories to recommendations, in its order.
RecommendationMapping ==
  << <<"hate_speech", "Consider using more inclusive language">>,
     <<"harassment", "Please be respectful in your communication">>,
     <<"violence", "Avoid content that promotes violence">>,
     <<"misinformation", "Please verify facts before sharing">>,
     <<"spam", "Avoid repetitive or promotional content">> >>

\* The recommendations in the order floor entry, age-restriction entry,
\* entries of the mapped categories that are present.
OrderedRecommendations(classification, request) ==
  LET present == SelectSeq(RecommendationMapping,
                           LAMBDA e : Includes(classification.categories, e[1]))
  IN  (IF classification.severity = "critical"
         THEN <<"Immediate content removal required">>
         ELSE IF classification.severity = "high"
         THEN <<"Content should be reviewed by human moderators">>
         ELSE <<>>)
      \o (IF /\ request.platform = "youtube"
             /\ Includes(classification.categories, "explicit_content")
            THEN <<"Consider age-restricting this content">> ELSE <<>>)
      \o [k \in 1..Len(present) |-> present[k][2]]

\* C23: the recommendations of a verdict normalized from a classification
\* without an API-error category are, in this order: the entry of the
\* severity floor (critical or high), the age-restriction entry of youtube,
\* and one entry for each of hate_speech, harassment, violence,
\* misinformation, spam that is among the categories, in that order whatever
\* the order of the categories; nothing else.
C23_RecommendationOrder ==
  \A i \in CallIds :
    Ruled(i) =>
      calls[i].verdict.recommendations =
        OrderedRecommendations(calls[i].classification, calls[i].request)

\* A critical classification that lists the five mapped categories from spam
\* to hate_speech has been normalized: six recommendations, the one for
\* hate_speech second.
C23_Witness ==
  \E i \in CallIds :
    /\ Ruled(i)
    /\ calls[i].classification.severity = "critical"
    /\ calls[i].classification.categories =
         <<"spam", "misinformation", "violence", "harassment", "hate_speech">>
    /\ Len(calls[i].verdict.recommendations) = 6
    /\ calls[i].verdict.recommendations[2] = "Consider using more inclusive language"

\* The text without its fence markers and its whitespace.
Unwrapped(text) ==
  SelectSeq(text, LAMBDA ch : ch.k \notin {"fence_json", "fence", "ws"})

\* The text, its fence markers removed, is not one JSON document.
NotJson(text) == ~(Len(Unwrapped(text)) = 1 /\ Unwrapped(text)[1].k = "json")

\* The text is one JSON document between fence markers.
Fenced(text) ==
  /\ Len(text) >= 3
  /\ text[1].k \in {"fence_json", "fence"}
  /\ text[Len(text)].k = "fence"
  /\ ~NotJson(text)

\* C24: when the backend call succeeds with a text that is not JSON once the
\* fence markers are removed, the classification is isProblematic false,
\* confidence 0, no categories, reasoning Failed to parse AI response,
\* severity low, and the verdict has isProblematic false, confidence 0, no
\* categories, severity low and no recommendations; a JSON document between
\* fence markers yields the classification of the document alone.
C24_ParseFailure ==
  \A i \in CallIds :
    (adapter = "gemini" /\ Normalized(i) /\ calls[i].outcome.kind = "text") =>
      /\ NotJson(calls[i].outcome.text) =>
           /\ calls[i].classification =
                Classification(FALSE, Num(0), <<>>, "Failed to parse AI response", "low")
           /\ calls[i].verdict.isProblematic = FALSE
           /\ calls[i].verdict.confidence = Num(0)
           /\ calls[i].verdict.categories = <<>>
           /\ calls[i].verdict.severity = "low"
           /\ calls[i].verdict.recommendations = <<>>
      /\ Fenced(calls[i].outcome.text) =>
           calls[i].classification = parseGeminiResponse(Unwrapped(calls[i].outcome.text))

\* A call on youtube has returned after the backend answered with prose
\* followed by a JSON document.
C24_Witness ==
  \E i \in CallIds :
    /\ Normalized(i)
    /\ calls[i].request.platform = "youtube"
    /\ calls[i].outcome.text = <<Prose, Json(SampleObject)>>
    /\ calls[i].verdict.reasoning = "Failed to parse AI response"
    /\ calls[i].verdict.recommendations = <<>>

\* The response to the batch is the one its body calls for.
BatchResponse ==
  batch.pc = "responded" =>
    LET requests == batch.body.items
        n == Len(requests)
    IN  IF batch.body.isArray /\ n >= 1 /\ n <= 10
        THEN /\ batch.status = 200
             /\ Len(batch.data) = n
             /\ \A k \in 1..n :
                  /\ batch.data[k].index = k - 1
                  /\ calls[k].request = requests[k]
                  /\ calls[k].events # <<>>
                  /\ batch.data[k].success = (calls[k].pc = "done")
                  /\ calls[k].pc = "done" =>
                       batch.data[k].data = VerdictAlone(calls[k])
                  /\ ~requests[k].content.isString => ~batch.data[k].success
                  /\ (adapter = "gemini" /\ requests[k].content.isString) =>
                       batch.data[k].success
             /\ \A i \in DOMAIN calls : i > n => calls[i] = IdleCall
        ELSE /\ batch.status = 400
             /\ batch.data = <<>>
             /\ \A i \in DOMAIN calls : calls[i] = IdleCall

\* The calls of a batch start in one step, one for each item, and no call
\* starts in any other step.
DispatchedTogether ==
  /\ (batch.pc = "idle" /\ batch'.pc = "running") =>
       \A k \in 1..Len(batch'.body.items) :
         calls[k].pc = "idle" /\ calls'[k].pc # "idle"
  /\ \A i \in DOMAIN calls :
       (calls[i].pc = "idle" /\ calls'[i].pc # "idle") =>
         (batch.pc = "idle" /\ batch'.pc = "running")

C26_NonInterference ==
  \A i \in CallIds :
    /\ calls[i].pc = "done" =>
         LET request == calls[i].request
             basicValidation == performBasicValidation(request.content.runs)
             geminiResponse ==
               CASE calls[i].outcome.kind = "text" ->
                      parseGeminiResponse(calls[i].outcome.text)
                 [] calls[i].outcome.kind = "error" ->
                      HandleApiError(calls[i].outcome.error)
                 [] OTHER -> calls[i].classification
         IN  IF ShortCircuited(i)
             THEN calls[i].verdict = basicValidation
             ELSE /\ \A u \in UserIds :
                       applyBusinessRules(geminiResponse, [request EXCEPT !.userId = u])
                         = calls[i].verdict
                  /\ \A p \in Platforms :
                       ( \/ "youtube" \notin {p, request.platform}
                         \/ ~Includes(calls[i].verdict.categories,
                                      "explicit_content") ) =>
                         applyBusinessRules(geminiResponse,
                                            [request EXCEPT !.platform = p])
                           = calls[i].verdict
    /\ (adapter = "gemini" /\ InvokedAdapter(i)) =>
         calls[i].prompt = buildModerationPrompt(calls[i].request.content.runs)

\* A call with a userId for the platform twitter has sent its prompt and has
\* returned the normalized verdict of a classification with explicit_content.
C26_Witness ==
  \E i \in CallIds :
    /\ adapter = "gemini"
    /\ Ruled(i)
    /\ calls[i].request.userId = "user123"
    /\ calls[i].request.platform = "twitter"
    /\ Includes(calls[i].verdict.categories, "explicit_content")
    /\ calls[i].prompt # NoPrompt

\* The steps of a call: it is suspended only as it starts, it leaves the
\* suspension only with the outcome of the adapter call, and it returns a
\* verdict without suspension exactly if performBasicValidation flags its
\* content.
CallSteps ==
  \A i \in CallIds :
    /\ (calls[i].pc # "awaiting" /\ calls'[i].pc = "awaiting") =>
         calls[i].pc = "idle"
    /\ (calls[i].pc = "awaiting" /\ calls'[i].pc # "awaiting") =>
         /\ calls'[i].outcome.kind # "none"
         /\ calls'[i].pc \in {"done", "threw"}
    /\ (calls[i].pc = "idle" /\ calls'[i].pc = "done") =>
         /\ calls'[i].verdict.isProblematic
         /\ ~InvokedAdapter(i)'
    /\ (calls[i].pc = "idle" /\ calls'[i].pc = "awaiting") =>
         ~performBasicValidation(calls'[i].request.content.runs).isProblematic

\* A call that has returned has invoked the adapter once, or not at all if
\* it returned the verdict of performBasicValidation.
OneSuspension ==
  \A i \in CallIds :
    calls[i].pc = "done" =>
      Count(calls[i].events, "geminiService.moderateContent")
        = IF ShortCircuited(i) THEN 0 ELSE 1

\* C27: a moderateContent call is suspended once at most, at the adapter
\* call; if every backend call eventually settles, a suspended call
\* eventually returns a verdict; a call leaves its suspension only with the
\* outcome of the adapter call (there is no timeout); and a call whose
\* content performBasicValidation flags returns without being suspended.
C27_Termination ==
  /\ \A i \in CallIds :
       (adapter = "gemini" /\ calls[i].pc = "awaiting") ~> (calls[i].pc = "done")
  /\ []OneSuspension
  /\ [][CallSteps]_vars

\* A call has returned the verdict for a backend call that was rejected.
C27_Witness ==
  \E i \in CallIds :
    /\ adapter = "gemini"
    /\ calls[i].pc = "done"
    /\ calls[i].outcome.kind = "error"
    /\ Count(calls[i].events, "geminiService.moderateContent") = 1

\* C28: a verdict without an API-error category whose severity is high or
\* critical, by the classification or by the youtube override, has
\* isProblematic = true and a confidence of at least 0.8.
C28_FloorsHoldForFinalSeverity ==
  \A i \in CallIds :
    (Ruled(i) /\ calls[i].verdict.severity \in {"high", "critical"}) =>
      /\ calls[i].verdict.isProblematic = TRUE
      /\ ~calls[i].verdict.confidence.nan
      /\ calls[i].verdict.confidence.v >= 80

\* The rank of a severity.
SeverityRank(severity) ==
  CASE severity = "low"      -> 1
    [] severity = "medium"   -> 2
    [] severity = "high"     -> 3
    [] severity = "critical" -> 4

\* C29: for a classification with a severity among low, medium, high,
\* critical, the severity of the normalized verdict ranks at least as high,
\* and a critical classification yields a critical verdict.
C29_SeverityNeverLowered ==
  \A i \in CallIds :
    (Normalized(i) /\ calls[i].classification.severity \in Severities) =>
      /\ calls[i].verdict.severity \in Severities
      /\ SeverityRank(calls[i].verdict.severity)
           >= SeverityRank(calls[i].classification.severity)
      /\ calls[i].classification.severity = "critical" =>
           calls[i].verdict.severity = "critical"

\* C30: for a classification with a numeric confidence, the normalized
\* verdict has (a) a confidence not below that of the classification, and
\* equal to it when an API-error category is present, (b) the categories of
\* the classification, and (c) isProblematic = true only without an API-error
\* category and with a confidence of at least 0.5 or a severity other than low.
C30_NormalizerBounds ==
  \A i \in CallIds :
    (Normalized(i) /\ ~calls[i].classification.confidence.nan) =>
      /\ ~calls[i].verdict.confidence.nan
      /\ calls[i].verdict.confidence.v >= calls[i].classification.confidence.v
      /\ HasApiErrorCategory(calls[i].classification.categories) =>
           calls[i].verdict.confidence = calls[i].classification.confidence
      /\ calls[i].verdict.categories = calls[i].classification.categories
      /\ calls[i].verdict.isProblematic = TRUE =>
           /\ ~HasApiErrorCategory(calls[i].verdict.categories)
           /\ \/ calls[i].verdict.confidence.v >= 50
              \/ calls[i].verdict.severity # "low"

\* A critical classification of confidence 0.95 has been normalized and
\* keeps its confidence.
C30_Witness ==
  \E i \in CallIds :
    /\ Ruled(i)
    /\ calls[i].classification.severity = "critical"
    /\ calls[i].classification.confidence = Num(95)
    /\ calls[i].verdict.confidence = Num(95)
    /\ calls[i].verdict.isProblematic = TRUE

=============================================================================
